---------------------------- MODULE Spec2Model ----------------------------
(***************************************************************************)
(* The note overlay's front end, src/src/App.tsx.  The file holds three    *)
(* revisions of the App component:                                         *)
(*   lines   7-175  "textarea": a <textarea> bound to the noteContent      *)
(*                  state, auto-saved by a useEffect([noteContent]) timer; *)
(*   lines 189-393  "tiptap":   a TipTap editor whose onUpdate calls a     *)
(*                  debounce()d saveNote;                                  *)
(*   lines 402-531  "textarea" again (same logic as the first, the         *)
(*                  settings panel renamed to an info panel).              *)
(* The variable `variant` says which revision is running.  Everything runs *)
(* on one JavaScript event loop, so each handler is one atomic action; the *)
(* asynchronous parts (load_note / save_note invocations, 500 ms timers)   *)
(* are state that later actions complete.                                  *)
(*                                                                         *)
(* All timers that matter have the same delay (500 ms), so they fire in    *)
(* the order they were created: `timers` is a queue and only its head can  *)
(* fire.  "An edit arrives less than D after the previous one" is the      *)
(* edit arriving while the previous edit's timer is still in the queue.    *)
(***************************************************************************)
EXTENDS Naturals, Sequences, FiniteSets

\* Number of user edits explored in one run of the program.
MaxEdits == 2

\* Note text: a sequence of characters.
Empty == <<>>
Contents == { Empty, <<"a">>, <<"a", "\n", "b">> }

Variants == { "textarea", "tiptap" }

\* clearTimeout(undefined): the id held by a debounce closure that has not
\* scheduled anything yet (App.tsx:267).
NoTimer == 0

VARIABLES
    variant,      \* which revision of App is running
    mounted,      \* the component is mounted
    isLoading,    \* useState(true), App.tsx:10 / 192 / 405
    showInfo,     \* showSettings (App.tsx:9) / showInfo (App.tsx:190, 404)
    showToolbar,  \* App.tsx:191 (tiptap only)
    noteContent,  \* useState(""), App.tsx:8 / 403 (textarea only)
    editorDoc,    \* the TipTap document, App.tsx:195-212 (tiptap only)
    load,         \* the load_note invocation: [st, ok, val]
    seeded,       \* how many times loaded content was put into the editor
    timers,       \* pending setTimeout callbacks, oldest first
    timeoutId,    \* the timer id the current cleanup / debounce closure holds
    nextId,       \* the id the next setTimeout returns
    inflight,     \* save_note invocations not yet completed
    store,        \* the Note Store's durable content
    editCount,    \* number of user edits so far
    console,      \* the messages console.error has printed
    windowState,  \* Hidden / Visible / VisibleForcedOnTop
    hotkeyTrail   \* window states along the latest run of hotkey presses

vars == << variant, mounted, isLoading, showInfo, showToolbar, noteContent,
           editorDoc, load, seeded, timers, timeoutId, nextId, inflight,
           store, editCount, console, windowState, hotkeyTrail >>

uiVars  == << isLoading, showInfo, showToolbar >>
winVars == << windowState, hotkeyTrail >>

-----------------------------------------------------------------------------
(* Pure helpers *)

RECURSIVE MapSeq(_, _)
\* s with every element x replaced by f[x]
MapSeq(f, s) == IF s = <<>> THEN <<>> ELSE <<f[Head(s)]>> \o MapSeq(f, Tail(s))

\* content.replace(/\n/g, '<br>'), App.tsx:230: every newline becomes the
\* markup token <br>, every other character is kept.
ReplaceNewlines(content) ==
    MapSeq([ch \in {"a", "b", "\n"} |-> IF ch = "\n" THEN "<br>" ELSE ch], content)

\* editor.commands.setContent(htmlContent), App.tsx:231: the markup is parsed
\* into document nodes; <br> becomes a hard-break node, text stays text.
SetContent(html) ==
    MapSeq([tok \in {"a", "b", "<br>"} |-> IF tok = "<br>" THEN "hardBreak" ELSE tok], html)

\* editor.getText(), App.tsx:208: the document as plain text; a hard break
\* is rendered as a newline.
GetText(doc) ==
    MapSeq([n \in {"a", "b", "hardBreak"} |-> IF n = "hardBreak" THEN "\n" ELSE n], doc)

\* The documents a user edit can produce.
Docs == { SetContent(ReplaceNewlines(c)) : c \in Contents }

RECURSIVE Cancel(_, _)
\* clearTimeout(id): the queue without the timer `id` (no effect when that
\* timer has fired already, or for clearTimeout(undefined)).
Cancel(q, id) ==
    IF q = <<>> THEN <<>>
    ELSE IF Head(q).id = id THEN Tail(q)
    ELSE <<Head(q)>> \o Cancel(Tail(q), id)

\* setTimeout(() => save(content), 500): a new timer at the end of the queue.
Schedule(q, id, content, origin) ==
    Append(q, [id |-> id, content |-> content, origin |-> origin])

\* The text the user sees in the editing surface.
CurrentContent ==
    IF variant = "textarea" THEN noteContent ELSE GetText(editorDoc)

-----------------------------------------------------------------------------
(* Construction: the first render and the mount effects have run.          *)
(* textarea: loadNote() is invoked and the auto-save effect has scheduled  *)
(* a timer holding the initial noteContent "" (App.tsx:12-26).             *)
(* tiptap:   loadNote() is invoked; debounce() has made a closure whose    *)
(* timeoutId is undefined (App.tsx:215-221).                               *)

Init ==
    /\ variant \in Variants
    /\ mounted = TRUE
    /\ isLoading = TRUE
    /\ showInfo = FALSE
    /\ showToolbar = FALSE
    /\ noteContent = Empty
    /\ editorDoc = Empty
    /\ load = [st |-> "invoked", ok |-> TRUE, val |-> Empty]
    /\ seeded = 0
    /\ timers = IF variant = "textarea"
                THEN Schedule(<<>>, 1, Empty, "init")
                ELSE <<>>
    /\ timeoutId = IF variant = "textarea" THEN 1 ELSE NoTimer
    /\ nextId = IF variant = "textarea" THEN 2 ELSE 1
    /\ inflight = {}
    /\ store \in Contents
    /\ editCount = 0
    /\ console = {}
    /\ windowState \in {"Hidden", "Visible"}
    /\ hotkeyTrail = <<windowState>>


-----------------------------------------------------------------------------
(* Building blocks of the handlers *)

\* CanEdit with the loading branch of the render left out: the editing
\* surface is there from the first render on.
CanEditWhileLoading == mounted

\* The textarea is rendered, and the TipTap <EditorContent> is attached,
\* only by the render branch after `if (isLoading) return ...`
\* (App.tsx:71-85, 274-288, 466-480).
CanEdit == mounted /\ ~isLoading

\* The timer id that the next handler sees after a re-render that leaves
\* noteContent alone.  textarea: the effect is not re-run, its cleanup keeps
\* the id (App.tsx:17-26).  tiptap: `debounce(...)` is evaluated again in
\* the render (App.tsx:215-217) and returns a closure whose own timeoutId
\* is undefined (App.tsx:267); onUpdate calls the newest closure.
AfterRender(tid) == IF variant = "tiptap" THEN NoTimer ELSE tid

\* The useEffect([noteContent]) body after noteContent changed to `content`:
\* the previous run's cleanup clears its timer, the new run schedules a
\* timer whose closure holds `content` (App.tsx:17-26, 412-421).
AutoSaveEffect(content, origin) ==
    /\ timers' = Schedule(Cancel(timers, timeoutId), nextId, content, origin)
    /\ timeoutId' = nextId
    /\ nextId' = nextId + 1

\* setNoteContent(content): a state change re-renders and re-runs the
\* effect; setting the value the state already has does neither.
SetNoteContent(content, origin) ==
    IF content = noteContent
    THEN UNCHANGED << noteContent, timers, timeoutId, nextId >>
    ELSE /\ noteContent' = content
         /\ AutoSaveEffect(content, origin)

\* debouncedSave(text), the closure returned by debounce (App.tsx:268-271):
\* clearTimeout(timeoutId); timeoutId = setTimeout(() => saveNote(text), 500).
debouncedSave(text) ==
    /\ timers' = Schedule(Cancel(timers, timeoutId), nextId, text, "edit")
    /\ timeoutId' = nextId
    /\ nextId' = nextId + 1

-----------------------------------------------------------------------------
(* Startup load *)

\* The backend answers invoke("load_note") (App.tsx:30, 225, 425): the
\* durable content, or an error.
LoadRespond ==
    /\ load.st = "invoked"
    /\ \E ok \in BOOLEAN :
         load' = [st |-> "responded", ok |-> ok,
                  val |-> IF ok THEN store ELSE Empty]
    /\ UNCHANGED << variant, mounted, uiVars, noteContent, editorDoc, seeded,
                    timers, timeoutId, nextId, inflight, store, editCount,
                    winVars, console >>

\* The rest of loadNote after the await, textarea (App.tsx:30-36, 425-431).
\* State setters of an unmounted component do nothing.
LoadResolveTextarea ==
    /\ variant = "textarea"
    /\ load.st = "responded"
    /\ load' = [load EXCEPT !.st = "done"]
    /\ IF mounted
       THEN /\ isLoading' = FALSE
            /\ IF load.ok
               THEN /\ seeded' = seeded + 1
                    /\ SetNoteContent(load.val, "load")
               ELSE UNCHANGED << seeded, noteContent, timers, timeoutId, nextId >>
       ELSE UNCHANGED << isLoading, seeded, noteContent, timers, timeoutId, nextId >>
    /\ console' = IF load.ok THEN console ELSE console \cup {"Failed to load note:"}
    /\ UNCHANGED << variant, mounted, showInfo, showToolbar, editorDoc,
                    inflight, store, editCount, winVars >>

\* The rest of loadNote after the await, tiptap (App.tsx:225-242).  The
\* editor instance exists from the first render on; setContent emits no
\* update event, so onUpdate is not called.  The 100 ms focus timer
\* (App.tsx:235-237) changes no state of this model.
LoadResolveTiptap ==
    /\ variant = "tiptap"
    /\ load.st = "responded"
    /\ load' = [load EXCEPT !.st = "done"]
    /\ IF mounted
       THEN /\ isLoading' = FALSE
            /\ timeoutId' = AfterRender(timeoutId)
            /\ IF load.ok /\ load.val # Empty
               THEN /\ seeded' = seeded + 1
                    /\ editorDoc' = SetContent(ReplaceNewlines(load.val))
               ELSE UNCHANGED << seeded, editorDoc >>
       ELSE UNCHANGED << isLoading, timeoutId, seeded, editorDoc >>
    /\ console' = IF load.ok THEN console ELSE console \cup {"Failed to load note:"}
    /\ UNCHANGED << variant, mounted, showInfo, showToolbar, noteContent,
                    timers, nextId, inflight, store, editCount, winVars >>

-----------------------------------------------------------------------------
(* Editing *)

\* <textarea onChange={(e) => setNoteContent(e.target.value)}>
\* (App.tsx:105, 500), followed by the auto-save effect.
EditTextarea(c) ==
    /\ variant = "textarea"
    /\ CanEdit
    /\ editCount < MaxEdits
    /\ c # noteContent
    /\ SetNoteContent(c, "edit")
    /\ editCount' = editCount + 1
    /\ UNCHANGED << variant, mounted, uiVars, editorDoc, load, seeded,
                    inflight, store, winVars, console >>

\* The user changes the TipTap document (typing or a format button,
\* App.tsx:259-263); onUpdate passes editor.getText() to debouncedSave
\* (App.tsx:207-211).
EditTiptap(d) ==
    /\ variant = "tiptap"
    /\ CanEdit
    /\ editCount < MaxEdits
    /\ d # editorDoc
    /\ editorDoc' = d
    /\ debouncedSave(GetText(d))
    /\ editCount' = editCount + 1
    /\ UNCHANGED << variant, mounted, uiVars, noteContent, load, seeded,
                    inflight, store, winVars, console >>

-----------------------------------------------------------------------------
(* Saving *)

\* The head timer's callback runs: `noteContent !== undefined` is always
\* true, saveNote issues invoke("save_note", {content}) with the content
\* its closure holds (App.tsx:19-23, 39-41, 216, 245-247).
TimerFire ==
    /\ timers # <<>>
    /\ inflight' = inflight \cup { Head(timers) }
    /\ timers' = Tail(timers)
    /\ UNCHANGED << variant, mounted, uiVars, noteContent, editorDoc, load,
                    seeded, timeoutId, nextId, store, editCount, winVars, console >>

\* save_note succeeds: the content is durable, the await returns.
SaveCompletes(s) ==
    /\ s \in inflight
    /\ inflight' = inflight \ {s}
    /\ store' = s.content
    /\ UNCHANGED << variant, mounted, uiVars, noteContent, editorDoc, load,
                    seeded, timers, timeoutId, nextId, editCount, winVars, console >>

\* SaveRejected with a catch block that schedules the save again.
SaveRejectedRetry(s) ==
    /\ s \in inflight
    /\ inflight' = inflight \ {s}
    /\ console' = console \cup {"Failed to save note:"}
    /\ timers' = Schedule(timers, s.id, s.content, s.origin)
    /\ UNCHANGED << variant, mounted, uiVars, noteContent, editorDoc, load,
                    seeded, timeoutId, nextId, store, editCount, winVars >>

\* save_note fails: the catch block logs "Failed to save note:" and
\* saveNote returns (App.tsx:42-44, 248-250).
SaveRejected(s) ==
    /\ s \in inflight
    /\ inflight' = inflight \ {s}
    /\ console' = console \cup {"Failed to save note:"}
    /\ UNCHANGED << variant, mounted, uiVars, noteContent, editorDoc, load,
                    seeded, timers, timeoutId, nextId, store, editCount,
                    winVars >>

-----------------------------------------------------------------------------
(* Panels: state changes that re-render without touching the note *)

\* onClick={() => setShowToolbar(!showToolbar)} (App.tsx:298).
ToggleToolbar ==
    /\ variant = "tiptap"
    /\ CanEdit
    /\ showToolbar' = ~showToolbar
    /\ timeoutId' = AfterRender(timeoutId)
    /\ UNCHANGED << variant, mounted, isLoading, showInfo, noteContent,
                    editorDoc, load, seeded, timers, nextId, inflight, store,
                    editCount, winVars, console >>

\* onClick={() => setShowSettings(true)} / setShowInfo(true)
\* (App.tsx:94, 305, 489).
OpenInfo ==
    /\ CanEdit
    /\ ~showInfo
    /\ showInfo' = TRUE
    /\ timeoutId' = AfterRender(timeoutId)
    /\ UNCHANGED << variant, mounted, isLoading, showToolbar, noteContent,
                    editorDoc, load, seeded, timers, nextId, inflight, store,
                    editCount, winVars, console >>

\* onClick={() => setShowSettings(false)} / setShowInfo(false)
\* (App.tsx:117, 374, 512).
CloseInfo ==
    /\ mounted
    /\ showInfo
    /\ showInfo' = FALSE
    /\ timeoutId' = AfterRender(timeoutId)
    /\ UNCHANGED << variant, mounted, isLoading, showToolbar, noteContent,
                    editorDoc, load, seeded, timers, nextId, inflight, store,
                    editCount, winVars, console >>

-----------------------------------------------------------------------------
(* Shutdown *)

\* The component unmounts.  textarea: the auto-save effect's cleanup runs
\* clearTimeout(timeoutId) (App.tsx:25, 420) and nothing else.  tiptap: no
\* effect has a cleanup; pending debounce timers stay scheduled.
Unmount ==
    /\ mounted
    /\ mounted' = FALSE
    /\ timers' = IF variant = "textarea" THEN Cancel(timers, timeoutId) ELSE timers
    /\ UNCHANGED << variant, uiVars, noteContent, editorDoc, load, seeded,
                    timeoutId, nextId, inflight, store, editCount, winVars, console >>

-----------------------------------------------------------------------------
(* Window visibility.  The controller lives in the native shell; the front *)
(* end only names the hotkey (App.tsx:129, 386, 524) and invokes           *)
(* force_window_on_top (App.tsx:52-59).                                    *)

\* toggleHotkey that only drops the forced level of a forced window.
toggleHotkeyKeepsVisible(w) ==
    IF w = "Hidden" THEN "Visible"
    ELSE IF w = "VisibleForcedOnTop" THEN "Visible" ELSE "Hidden"

\* toggleHotkey(): Hidden -> Visible, Visible | VisibleForcedOnTop -> Hidden.
toggleHotkey(w) == IF w = "Hidden" THEN "Visible" ELSE "Hidden"

\* forceOnTop(): Visible -> VisibleForcedOnTop, idempotent when forced.
forceOnTop(w) == IF w = "Hidden" THEN w ELSE "VisibleForcedOnTop"

\* The trail with s added, cut to its last four states.
Trail(t, s) == IF Len(t) < 4 THEN Append(t, s) ELSE Append(Tail(t), s)

\* The global shortcut is pressed; it works whichever application has focus.
ToggleHotkey ==
    /\ windowState' = toggleHotkey(windowState)
    /\ hotkeyTrail' = Trail(hotkeyTrail, windowState')
    /\ UNCHANGED << variant, mounted, uiVars, noteContent, editorDoc, load,
                    seeded, timers, timeoutId, nextId, inflight, store,
                    editCount, console >>

\* "Force Window On Top" in the settings panel (App.tsx:52-59, 138-152):
\* the invoke succeeds or fails; a failure is logged and changes nothing.
ForceWindowOnTop ==
    /\ variant = "textarea"
    /\ CanEdit
    /\ showInfo
    /\ windowState # "Hidden"
    /\ \E ok \in BOOLEAN :
         /\ windowState' = IF ok THEN forceOnTop(windowState) ELSE windowState
         /\ console' = IF ok THEN console
                       ELSE console \cup {"Failed to force window on top:"}
    /\ hotkeyTrail' = <<windowState'>>
    /\ UNCHANGED << variant, mounted, uiVars, noteContent, editorDoc, load,
                    seeded, timers, timeoutId, nextId, inflight, store,
                    editCount >>

-----------------------------------------------------------------------------

Next ==
    \/ LoadRespond
    \/ LoadResolveTextarea
    \/ LoadResolveTiptap
    \/ \E c \in Contents : EditTextarea(c)
    \/ \E d \in Docs : EditTiptap(d)
    \/ TimerFire
    \/ \E s \in inflight : SaveCompletes(s)
    \/ \E s \in inflight : SaveRejected(s)
    \/ ToggleToolbar
    \/ OpenInfo
    \/ CloseInfo
    \/ Unmount
    \/ ToggleHotkey
    \/ ForceWindowOnTop

Spec == Init /\ [][Next]_vars

-----------------------------------------------------------------------------
(* Vocabulary of the properties *)

\* An edit's timer is pending: the latest edit arrived less than D ago.
BurstInProgress == \E i \in DOMAIN timers : timers[i].origin = "edit"

\* The save_note invocations issued by the step.
Issued == inflight' \ inflight

\* The save_note invocations that ended in the step.
Ended == inflight \ inflight'

\* Nothing is scheduled or in flight.
Quiescent == load.st = "done" /\ timers = <<>> /\ inflight = {}

-----------------------------------------------------------------------------
(* Debounced persistence *)

\* C1 (debounce collapse): while a burst of edits is in progress no save is
\* issued except the one that ends it, and that save carries the content of
\* the last edit: a step that issues a save during a burst leaves no edit
\* timer pending and sends the editor's current content.
DebounceCollapse ==
    [][ (BurstInProgress /\ Issued # {})
          => /\ ~BurstInProgress'
             /\ \A s \in Issued : s.content = CurrentContent' ]_vars

\* C2 (shutdown flush): when the component unmounts while an edit's timer is
\* pending, the unmounting step issues a save of the latest content.
ShutdownFlush ==
    [][ (mounted /\ ~mounted' /\ BurstInProgress)
          => \E s \in Issued : s.content = CurrentContent ]_vars

\* C3 (save serialization): at most one save_note call is in flight.
SaveSerialization == Cardinality(inflight) <= 1

\* C4 (eventual durability): once the edits have stopped and every save has
\* ended, nothing having failed, the store holds the last edit.
EventualDurability ==
    (Quiescent /\ editCount > 0 /\ console = {}) => store = CurrentContent

\* C5 (seeding is not editing): putting the loaded content into the editor
\* starts no debounce timer and leads to no save_note call.
SeedingIsNotEditing ==
    /\ \A i \in DOMAIN timers : timers[i].origin # "load"
    /\ \A s \in inflight : s.origin # "load"

\* C7 (single pending flush): at most one debounce timer is scheduled.
SinglePendingFlush == Len(timers) <= 1

\* C10 (initial buffer never written): a save_note call that carries the
\* initial empty buffer never changes what the store holds.
InitialBufferNeverSaved ==
    [][ \A s \in Ended : s.origin = "init" => store' = store ]_vars

\* C6 (failed save keeps the content pending): a step in which save_note
\* fails only logs: it schedules no timer, leaves the editor's content and
\* the rest of the component as they were; and every edit schedules a save
\* of the editor's full current content, which the timer then sends as is.
FailedSaveKeepsPending ==
    /\ [][ (Ended # {} /\ "Failed to save note:" \in console')
             => /\ timers' = timers
                /\ CurrentContent' = CurrentContent
                /\ <<mounted, isLoading, load>>' = <<mounted, isLoading, load>> ]_vars
    /\ [][ editCount' # editCount
             => /\ timers' # <<>>
                /\ timers'[Len(timers')].content = CurrentContent' ]_vars
    /\ [][ (timers # <<>> /\ Issued # {})
             => Issued = { s \in Issued : s.content = Head(timers).content } ]_vars

\* A save has failed, the editor holds content the store does not have, and
\* nothing is scheduled or in flight.
FailedSaveWitness ==
    /\ "Failed to save note:" \in console
    /\ mounted /\ editCount > 0
    /\ store # CurrentContent
    /\ Quiescent

-----------------------------------------------------------------------------
(* Startup seeding *)

\* C8 (seed before input): no edit is accepted before the startup load has
\* completed; the loaded content is put into the editor at most once, only
\* by a load that succeeded, and once when it is not empty; until the first
\* edit the editor shows what was loaded.
SeedBeforeInput ==
    /\ editCount > 0 => load.st = "done"
    /\ seeded <= 1
    /\ seeded = 1 => (load.st = "done" /\ load.ok)
    /\ (mounted /\ load.st = "done" /\ load.ok /\ load.val # Empty) => seeded = 1
    /\ (mounted /\ load.st = "done" /\ load.ok /\ editCount = 0)
           => CurrentContent = load.val

\* Loaded content was put into the editor and the user has edited it since.
SeedBeforeInputWitness ==
    /\ seeded = 1 /\ load.val # Empty
    /\ editCount > 0
    /\ CurrentContent # load.val

-----------------------------------------------------------------------------
(* Window visibility *)

\* C9 (hotkey toggle): along consecutive presses of the hotkey, two presses
\* from Hidden end in Hidden, one press from VisibleForcedOnTop ends in
\* Hidden, and a press from Hidden shows the window.
HotkeyToggle ==
    \A i \in DOMAIN hotkeyTrail :
        /\ (hotkeyTrail[i] = "Hidden" /\ i + 2 <= Len(hotkeyTrail))
               => hotkeyTrail[i + 2] = "Hidden"
        /\ (hotkeyTrail[i] = "VisibleForcedOnTop" /\ i + 1 <= Len(hotkeyTrail))
               => hotkeyTrail[i + 1] = "Hidden"
        /\ (hotkeyTrail[i] = "Hidden" /\ i + 1 <= Len(hotkeyTrail))
               => hotkeyTrail[i + 1] = "Visible"

\* The hotkey was pressed three times on a window forced on top.
HotkeyToggleWitness ==
    hotkeyTrail = << "VisibleForcedOnTop", "Hidden", "Visible", "Hidden" >>

=============================================================================
